---- MODULE Spec2Model ----
(***************************************************************************)
(* Model of src/main.py: the PyQt5 control window of the microfluidics     *)
(* microscope (Wago 750 PLC coils, Mad City Labs stage, CoolLED lamp) and  *)
(* its worker-thread routines.                                             *)
(*                                                                         *)
(* A text the program indexes or parses (the binary strings, the entry     *)
(* fields) is a sequence of one-character strings; a text it only shows or *)
(* sends (status, command label, lamp command) is a string.  A float is    *)
(* the IEEE 754 double Python holds, with its sign, mantissa and exponent. *)
(* A slot of the window is a function from the window's fields (the        *)
(* record Self) to the fields after the slot; a slot that raises keeps     *)
(* what it assigned before the raise and names the exception in the field  *)
(* `raised`.                                                               *)
(***************************************************************************)
EXTENDS Integers, Sequences, FiniteSets, TLC

VARIABLES
    buttons,        \* self.buttons['1'..'24']: isChecked() of each coil button
    displayBin,     \* self.displayBin: the read-only "Binary command" field
    k,              \* self.k: the editable "Input:" field
    b4,             \* self.b4: the "Status:" field
    bc,             \* self.bc: the "Command" label
    D,              \* self.D: the attribute, as the constructor leaves it
    V,              \* self.V: text of the velocity field
    MCL,            \* self.MCL: text of the stage input field
    MCLbuttons,     \* self.MCLbuttons['-X','+Y','-Y','+X']: isChecked()
    LEDbuttons,     \* self.LEDbuttons['LED ON']: isChecked()
    coils,          \* the PLC: value last written to each coil 0..23
    writes,         \* client.write_coil calls of the most recent slot
    moves,          \* stage.mcl_move calls of the most recent slot
    sent,           \* ser.write calls of the most recent slot
    workers,        \* the Worker runnables handed to the thread pool
    queue,          \* signals queued to the GUI thread, oldest first
    last,           \* the most recent slot run, and the thread that ran it
    aborted,        \* the process was aborted by an exception in a slot
    gestures        \* number of manual operations so far

vars == <<buttons, displayBin, k, b4, bc, D, V, MCL, MCLbuttons, LEDbuttons,
          coils, writes, moves, sent, workers, queue, last,
          aborted, gestures>>

-----------------------------------------------------------------------------
(* Bounds of the exploration *)

MaxGestures == 3      \* manual operations in one behaviour
MaxStarts == 2        \* routine starts in one behaviour
MaxQueue == 2         \* signals waiting for the GUI thread
MaxEmit == 4          \* step events emitted once a second routine is started
MaxMixed == 2         \* starts and manual operations when both are explored

-----------------------------------------------------------------------------
(* Program constants *)

NBits == 24           \* the 24 entries of the dict `buttons`
Reps == 10            \* range(10) of every routine

Rep(s, n) == [j \in 1..(n * Len(s)) |-> s[((j - 1) % Len(s)) + 1]]

Str(t) == [type |-> "str", text |-> t]

\* The presets assigned at the top of the constructor.
A == Str(Rep(<<"0", "0", "0", "0">>, 6))
B == Str(Rep(<<"1", "1", "1", "1">>, 6))
C == Str(Rep(<<"1", "0", "1", "0">>, 6))
PresetD == Str(Rep(<<"0", "1", "0", "1">>, 6))

\* _createDfield runs after the presets are assigned and rebinds self.D.
createDfield == [type |-> "QLineEdit", text |-> <<"5", "0">>]

OK == "OK"
ErrorRequire24 == "Error! Require 24-bit binary input"
CommandLabel == "Command"

-----------------------------------------------------------------------------
(* Python built-ins used by the slots: characters, int and bool.  A       *)
(* character outside printable ASCII is written by its code point, as in  *)
(* "U+0663" (ARABIC-INDIC DIGIT THREE) or "U+000B" (vertical tab).        *)

\* The decimal digits of Unicode outside ASCII (category Nd), one row per
\* script, in the order 0..9.
UnicodeDigits ==
    <<
       <<"U+0660", "U+0661", "U+0662", "U+0663", "U+0664",
         "U+0665", "U+0666", "U+0667", "U+0668", "U+0669">>,
       <<"U+06F0", "U+06F1", "U+06F2", "U+06F3", "U+06F4",
         "U+06F5", "U+06F6", "U+06F7", "U+06F8", "U+06F9">>,
       <<"U+07C0", "U+07C1", "U+07C2", "U+07C3", "U+07C4",
         "U+07C5", "U+07C6", "U+07C7", "U+07C8", "U+07C9">>,
       <<"U+0966", "U+0967", "U+0968", "U+0969", "U+096A",
         "U+096B", "U+096C", "U+096D", "U+096E", "U+096F">>,
       <<"U+09E6", "U+09E7", "U+09E8", "U+09E9", "U+09EA",
         "U+09EB", "U+09EC", "U+09ED", "U+09EE", "U+09EF">>,
       <<"U+0A66", "U+0A67", "U+0A68", "U+0A69", "U+0A6A",
         "U+0A6B", "U+0A6C", "U+0A6D", "U+0A6E", "U+0A6F">>,
       <<"U+0AE6", "U+0AE7", "U+0AE8", "U+0AE9", "U+0AEA",
         "U+0AEB", "U+0AEC", "U+0AED", "U+0AEE", "U+0AEF">>,
       <<"U+0B66", "U+0B67", "U+0B68", "U+0B69", "U+0B6A",
         "U+0B6B", "U+0B6C", "U+0B6D", "U+0B6E", "U+0B6F">>,
       <<"U+0BE6", "U+0BE7", "U+0BE8", "U+0BE9", "U+0BEA",
         "U+0BEB", "U+0BEC", "U+0BED", "U+0BEE", "U+0BEF">>,
       <<"U+0C66", "U+0C67", "U+0C68", "U+0C69", "U+0C6A",
         "U+0C6B", "U+0C6C", "U+0C6D", "U+0C6E", "U+0C6F">>,
       <<"U+0CE6", "U+0CE7", "U+0CE8", "U+0CE9", "U+0CEA",
         "U+0CEB", "U+0CEC", "U+0CED", "U+0CEE", "U+0CEF">>,
       <<"U+0D66", "U+0D67", "U+0D68", "U+0D69", "U+0D6A",
         "U+0D6B", "U+0D6C", "U+0D6D", "U+0D6E", "U+0D6F">>,
       <<"U+0DE6", "U+0DE7", "U+0DE8", "U+0DE9", "U+0DEA",
         "U+0DEB", "U+0DEC", "U+0DED", "U+0DEE", "U+0DEF">>,
       <<"U+0E50", "U+0E51", "U+0E52", "U+0E53", "U+0E54",
         "U+0E55", "U+0E56", "U+0E57", "U+0E58", "U+0E59">>,
       <<"U+0ED0", "U+0ED1", "U+0ED2", "U+0ED3", "U+0ED4",
         "U+0ED5", "U+0ED6", "U+0ED7", "U+0ED8", "U+0ED9">>,
       <<"U+0F20", "U+0F21", "U+0F22", "U+0F23", "U+0F24",
         "U+0F25", "U+0F26", "U+0F27", "U+0F28", "U+0F29">>,
       <<"U+1040", "U+1041", "U+1042", "U+1043", "U+1044",
         "U+1045", "U+1046", "U+1047", "U+1048", "U+1049">>,
       <<"U+1090", "U+1091", "U+1092", "U+1093", "U+1094",
         "U+1095", "U+1096", "U+1097", "U+1098", "U+1099">>,
       <<"U+17E0", "U+17E1", "U+17E2", "U+17E3", "U+17E4",
         "U+17E5", "U+17E6", "U+17E7", "U+17E8", "U+17E9">>,
       <<"U+1810", "U+1811", "U+1812", "U+1813", "U+1814",
         "U+1815", "U+1816", "U+1817", "U+1818", "U+1819">>,
       <<"U+1946", "U+1947", "U+1948", "U+1949", "U+194A",
         "U+194B", "U+194C", "U+194D", "U+194E", "U+194F">>,
       <<"U+19D0", "U+19D1", "U+19D2", "U+19D3", "U+19D4",
         "U+19D5", "U+19D6", "U+19D7", "U+19D8", "U+19D9">>,
       <<"U+1A80", "U+1A81", "U+1A82", "U+1A83", "U+1A84",
         "U+1A85", "U+1A86", "U+1A87", "U+1A88", "U+1A89">>,
       <<"U+1A90", "U+1A91", "U+1A92", "U+1A93", "U+1A94",
         "U+1A95", "U+1A96", "U+1A97", "U+1A98", "U+1A99">>,
       <<"U+1B50", "U+1B51", "U+1B52", "U+1B53", "U+1B54",
         "U+1B55", "U+1B56", "U+1B57", "U+1B58", "U+1B59">>,
       <<"U+1BB0", "U+1BB1", "U+1BB2", "U+1BB3", "U+1BB4",
         "U+1BB5", "U+1BB6", "U+1BB7", "U+1BB8", "U+1BB9">>,
       <<"U+1C40", "U+1C41", "U+1C42", "U+1C43", "U+1C44",
         "U+1C45", "U+1C46", "U+1C47", "U+1C48", "U+1C49">>,
       <<"U+1C50", "U+1C51", "U+1C52", "U+1C53", "U+1C54",
         "U+1C55", "U+1C56", "U+1C57", "U+1C58", "U+1C59">>,
       <<"U+A620", "U+A621", "U+A622", "U+A623", "U+A624",
         "U+A625", "U+A626", "U+A627", "U+A628", "U+A629">>,
       <<"U+A8D0", "U+A8D1", "U+A8D2", "U+A8D3", "U+A8D4",
         "U+A8D5", "U+A8D6", "U+A8D7", "U+A8D8", "U+A8D9">>,
       <<"U+A900", "U+A901", "U+A902", "U+A903", "U+A904",
         "U+A905", "U+A906", "U+A907", "U+A908", "U+A909">>,
       <<"U+A9D0", "U+A9D1", "U+A9D2", "U+A9D3", "U+A9D4",
         "U+A9D5", "U+A9D6", "U+A9D7", "U+A9D8", "U+A9D9">>,
       <<"U+A9F0", "U+A9F1", "U+A9F2", "U+A9F3", "U+A9F4",
         "U+A9F5", "U+A9F6", "U+A9F7", "U+A9F8", "U+A9F9">>,
       <<"U+AA50", "U+AA51", "U+AA52", "U+AA53", "U+AA54",
         "U+AA55", "U+AA56", "U+AA57", "U+AA58", "U+AA59">>,
       <<"U+ABF0", "U+ABF1", "U+ABF2", "U+ABF3", "U+ABF4",
         "U+ABF5", "U+ABF6", "U+ABF7", "U+ABF8", "U+ABF9">>,
       <<"U+FF10", "U+FF11", "U+FF12", "U+FF13", "U+FF14",
         "U+FF15", "U+FF16", "U+FF17", "U+FF18", "U+FF19">>,
       <<"U+104A0", "U+104A1", "U+104A2", "U+104A3", "U+104A4",
         "U+104A5", "U+104A6", "U+104A7", "U+104A8", "U+104A9">>,
       <<"U+10D30", "U+10D31", "U+10D32", "U+10D33", "U+10D34",
         "U+10D35", "U+10D36", "U+10D37", "U+10D38", "U+10D39">>,
       <<"U+11066", "U+11067", "U+11068", "U+11069", "U+1106A",
         "U+1106B", "U+1106C", "U+1106D", "U+1106E", "U+1106F">>,
       <<"U+110F0", "U+110F1", "U+110F2", "U+110F3", "U+110F4",
         "U+110F5", "U+110F6", "U+110F7", "U+110F8", "U+110F9">>,
       <<"U+11136", "U+11137", "U+11138", "U+11139", "U+1113A",
         "U+1113B", "U+1113C", "U+1113D", "U+1113E", "U+1113F">>,
       <<"U+111D0", "U+111D1", "U+111D2", "U+111D3", "U+111D4",
         "U+111D5", "U+111D6", "U+111D7", "U+111D8", "U+111D9">>,
       <<"U+112F0", "U+112F1", "U+112F2", "U+112F3", "U+112F4",
         "U+112F5", "U+112F6", "U+112F7", "U+112F8", "U+112F9">>,
       <<"U+11450", "U+11451", "U+11452", "U+11453", "U+11454",
         "U+11455", "U+11456", "U+11457", "U+11458", "U+11459">>,
       <<"U+114D0", "U+114D1", "U+114D2", "U+114D3", "U+114D4",
         "U+114D5", "U+114D6", "U+114D7", "U+114D8", "U+114D9">>,
       <<"U+11650", "U+11651", "U+11652", "U+11653", "U+11654",
         "U+11655", "U+11656", "U+11657", "U+11658", "U+11659">>,
       <<"U+116C0", "U+116C1", "U+116C2", "U+116C3", "U+116C4",
         "U+116C5", "U+116C6", "U+116C7", "U+116C8", "U+116C9">>,
       <<"U+11730", "U+11731", "U+11732", "U+11733", "U+11734",
         "U+11735", "U+11736", "U+11737", "U+11738", "U+11739">>,
       <<"U+118E0", "U+118E1", "U+118E2", "U+118E3", "U+118E4",
         "U+118E5", "U+118E6", "U+118E7", "U+118E8", "U+118E9">>,
       <<"U+11950", "U+11951", "U+11952", "U+11953", "U+11954",
         "U+11955", "U+11956", "U+11957", "U+11958", "U+11959">>,
       <<"U+11C50", "U+11C51", "U+11C52", "U+11C53", "U+11C54",
         "U+11C55", "U+11C56", "U+11C57", "U+11C58", "U+11C59">>,
       <<"U+11D50", "U+11D51", "U+11D52", "U+11D53", "U+11D54",
         "U+11D55", "U+11D56", "U+11D57", "U+11D58", "U+11D59">>,
       <<"U+11DA0", "U+11DA1", "U+11DA2", "U+11DA3", "U+11DA4",
         "U+11DA5", "U+11DA6", "U+11DA7", "U+11DA8", "U+11DA9">>,
       <<"U+16A60", "U+16A61", "U+16A62", "U+16A63", "U+16A64",
         "U+16A65", "U+16A66", "U+16A67", "U+16A68", "U+16A69">>,
       <<"U+16AC0", "U+16AC1", "U+16AC2", "U+16AC3", "U+16AC4",
         "U+16AC5", "U+16AC6", "U+16AC7", "U+16AC8", "U+16AC9">>,
       <<"U+16B50", "U+16B51", "U+16B52", "U+16B53", "U+16B54",
         "U+16B55", "U+16B56", "U+16B57", "U+16B58", "U+16B59">>,
       <<"U+1D7CE", "U+1D7CF", "U+1D7D0", "U+1D7D1", "U+1D7D2",
         "U+1D7D3", "U+1D7D4", "U+1D7D5", "U+1D7D6", "U+1D7D7">>,
       <<"U+1D7D8", "U+1D7D9", "U+1D7DA", "U+1D7DB", "U+1D7DC",
         "U+1D7DD", "U+1D7DE", "U+1D7DF", "U+1D7E0", "U+1D7E1">>,
       <<"U+1D7E2", "U+1D7E3", "U+1D7E4", "U+1D7E5", "U+1D7E6",
         "U+1D7E7", "U+1D7E8", "U+1D7E9", "U+1D7EA", "U+1D7EB">>,
       <<"U+1D7EC", "U+1D7ED", "U+1D7EE", "U+1D7EF", "U+1D7F0",
         "U+1D7F1", "U+1D7F2", "U+1D7F3", "U+1D7F4", "U+1D7F5">>,
       <<"U+1D7F6", "U+1D7F7", "U+1D7F8", "U+1D7F9", "U+1D7FA",
         "U+1D7FB", "U+1D7FC", "U+1D7FD", "U+1D7FE", "U+1D7FF">>,
       <<"U+1E140", "U+1E141", "U+1E142", "U+1E143", "U+1E144",
         "U+1E145", "U+1E146", "U+1E147", "U+1E148", "U+1E149">>,
       <<"U+1E2F0", "U+1E2F1", "U+1E2F2", "U+1E2F3", "U+1E2F4",
         "U+1E2F5", "U+1E2F6", "U+1E2F7", "U+1E2F8", "U+1E2F9">>,
       <<"U+1E950", "U+1E951", "U+1E952", "U+1E953", "U+1E954",
         "U+1E955", "U+1E956", "U+1E957", "U+1E958", "U+1E959">>,
       <<"U+1FBF0", "U+1FBF1", "U+1FBF2", "U+1FBF3", "U+1FBF4",
         "U+1FBF5", "U+1FBF6", "U+1FBF7", "U+1FBF8", "U+1FBF9">>
    >>

AsciiDigits == <<"0", "1", "2", "3", "4", "5", "6", "7", "8", "9">>

\* The decimal value of a digit of any script; -1 for every other character.
DigitValue(c) ==
    IF \E v \in 1..10 : AsciiDigits[v] = c
    THEN (CHOOSE v \in 1..10 : AsciiDigits[v] = c) - 1
    ELSE IF \E r \in DOMAIN UnicodeDigits : \E v \in 1..10 : UnicodeDigits[r][v] = c
    THEN (CHOOSE v \in 1..10 : \E r \in DOMAIN UnicodeDigits : UnicodeDigits[r][v] = c) - 1
    ELSE -1

\* int(c) of one character; -1 stands for ValueError.
PyInt(c) == DigitValue(c)

\* bool(n)
PyBool(n) == n # 0

\* The white space of Unicode outside ASCII.
UnicodeSpaces ==
    {"U+0085", "U+00A0", "U+1680", "U+2000", "U+2001", "U+2002", "U+2003",
     "U+2004", "U+2005", "U+2006", "U+2007", "U+2008", "U+2009", "U+200A",
     "U+2028", "U+2029", "U+202F", "U+205F", "U+3000"}

\* The white space float() strips once the text is ASCII.
AsciiSpaces == {" ", "\t", "\n", "\r", "\f", "U+000B"}

\* float() first turns every digit into its ASCII digit and every white
\* space outside ASCII into a blank.
ToAscii(c) ==
    IF DigitValue(c) # -1 THEN AsciiDigits[DigitValue(c) + 1]
    ELSE IF c \in UnicodeSpaces THEN " "
    ELSE c

IsDigit(c) == \E v \in 1..10 : AsciiDigits[v] = c

Lower(c) ==
    CASE c = "I" -> "i" [] c = "N" -> "n" [] c = "F" -> "f" [] c = "T" -> "t"
      [] c = "Y" -> "y" [] c = "A" -> "a" [] c = "E" -> "e" [] OTHER -> c

\* int(t) of a text of digits
RECURSIVE DigitsValue(_)
DigitsValue(t) ==
    IF t = <<>> THEN 0
    ELSE 10 * DigitsValue(SubSeq(t, 1, Len(t) - 1)) + PyInt(t[Len(t)])

-----------------------------------------------------------------------------
(* The window's fields as one record *)

Self ==
    [buttons |-> buttons, displayBin |-> displayBin, k |-> k, b4 |-> b4,
     bc |-> bc, D |-> D, V |-> V, MCL |-> MCL, MCLbuttons |-> MCLbuttons,
     LEDbuttons |-> LEDbuttons, coils |-> coils,
     writes |-> <<>>, moves |-> <<>>, sent |-> <<>>, raised |-> "none"]

\* ''.join(['1' if x else '0' for x in state])
binstring(state) == [j \in 1..Len(state) |-> IF state[j] THEN "1" ELSE "0"]

\* for j in range(len(INPUT)): client.write_coil(j, bool(int(INPUT[j])))
CoilWrites(INPUT) ==
    [j \in 1..Len(INPUT) |->
        [address |-> j - 1, value |-> PyBool(PyInt(INPUT[j]))]]

\* The PLC after a sequence of write_coil calls.
RECURSIVE WriteCoils(_, _)
WriteCoils(cs, ws) ==
    IF ws = <<>> THEN cs
    ELSE WriteCoils([cs EXCEPT ![Head(ws).address] = Head(ws).value], Tail(ws))

\* A getButtonsState that writes only the coils whose value changes.
MutGetButtonsStateChangedOnly(s) ==
    LET INPUT == binstring(s.buttons)
        ws == SelectSeq(CoilWrites(INPUT),
                        LAMBDA c : c.value # s.coils[c.address])
    IN  [s EXCEPT !.displayBin = INPUT,
                  !.b4 = OK,
                  !.writes = s.writes \o ws,
                  !.coils = WriteCoils(s.coils, ws)]

getButtonsState(s) ==
    LET INPUT == binstring(s.buttons)
        ws == CoilWrites(INPUT)
    IN  [s EXCEPT !.displayBin = INPUT,
                  !.b4 = OK,
                  !.writes = s.writes \o ws,
                  !.coils = WriteCoils(s.coils, ws)]

\* A loop that fills the buttons from the last character to the first.
MutSetCheckedReversed(inputs, s, j) ==
    [s EXCEPT !.buttons =
        [i \in 1..NBits |-> PyBool(PyInt(inputs[NBits + 1 - i]))]]

\* The loop of setButtonsState from button j on: setChecked(bool(int(inputs[j])))
\* for each button in turn; int() raises ValueError on a non-digit and the
\* buttons set so far stay set.
RECURSIVE setCheckedLoop(_, _, _)
setCheckedLoop(inputs, s, j) ==
    IF j > NBits THEN s
    ELSE IF PyInt(inputs[j]) = -1 THEN [s EXCEPT !.raised = "ValueError"]
    ELSE setCheckedLoop(inputs,
                        [s EXCEPT !.buttons[j] = PyBool(PyInt(inputs[j]))],
                        j + 1)

\* A setButtonsState without the length check: the entry is cut or padded.
MutSetButtonsStateNoLengthCheck(s) ==
    LET inputs == [j \in 1..NBits |->
                      IF j <= Len(s.k) THEN s.k[j] ELSE "0"]
        t == setCheckedLoop(inputs, s, 1)
    IN  IF t.raised # "none" THEN t
        ELSE [getButtonsState(t) EXCEPT !.b4 = OK]

MutSetButtonsStateRestoreCurrent(s) ==
    LET inputs == s.k
    IN  IF Len(inputs) # 24
        THEN [s EXCEPT !.b4 = ErrorRequire24, !.k = s.displayBin]
        ELSE LET t == setCheckedLoop(inputs, s, 1)
             IN  IF t.raised # "none" THEN t
                 ELSE [getButtonsState(t) EXCEPT !.b4 = OK]

setButtonsState(s) ==
    LET inputs == s.k
    IN  IF Len(inputs) # 24
        THEN [s EXCEPT !.b4 = ErrorRequire24, !.k = A.text]
        ELSE LET t == setCheckedLoop(inputs, s, 1)
             IN  IF t.raised # "none" THEN t
                 ELSE [getButtonsState(t) EXCEPT !.b4 = OK]

\* self.k.setText(inputs): QLineEdit.setText takes a str, anything else is a
\* TypeError.
writeInputCommand(s, inputs) ==
    IF inputs.type = "str" THEN [s EXCEPT !.k = inputs.text]
    ELSE [s EXCEPT !.raised = "TypeError"]

-----------------------------------------------------------------------------
(* Running a slot on the GUI thread *)

\* An exception that leaves a slot reaches PyQt5: from 5.5 on it ends the
\* process (qFatal), before that it is printed and the event loop goes on.
Outcomes(r) == IF r.raised = "none" THEN {FALSE} ELSE {FALSE, TRUE}

\* The thread the window lives on, and the threads of the QThreadPool.
GuiThread == "gui"
PoolThread == "pool"

SlotOn(thread, r, op, arg) ==
    /\ buttons' = r.buttons
    /\ displayBin' = r.displayBin
    /\ k' = r.k
    /\ b4' = r.b4
    /\ bc' = r.bc
    /\ D' = r.D
    /\ V' = r.V
    /\ MCL' = r.MCL
    /\ MCLbuttons' = r.MCLbuttons
    /\ LEDbuttons' = r.LEDbuttons
    /\ coils' = r.coils
    /\ writes' = r.writes
    /\ moves' = r.moves
    /\ sent' = r.sent
    /\ last' = [op |-> op, arg |-> arg, raised |-> r.raised, thread |-> thread]
    /\ aborted' \in Outcomes(r)

\* A slot run by the event loop of the GUI thread.
Slot(r, op, arg) == SlotOn(GuiThread, r, op, arg)

\* The GUI thread takes the next event when no run() occupies it.
GuiIdle ==
    \A w \in DOMAIN workers :
        workers[w].pc # "done" => workers[w].thread # GuiThread

Manual ==
    /\ ~aborted
    /\ GuiIdle
    /\ gestures < MaxGestures
    /\ gestures' = gestures + 1
    /\ UNCHANGED <<workers, queue>>

-----------------------------------------------------------------------------
(* Manual operations on the coil bank *)

Pattern(ones) == [j \in 1..NBits |-> IF j \in ones THEN "1" ELSE "0"]

\* Texts the operator types into the "Input:" field.
Entries ==
    { Pattern({1, 2, 24}),                      \* a valid state
      C.text,                                   \* a valid state
      Rep(<<"0">>, 23),                         \* one character short
      Rep(<<"1">>, 25),                         \* one character long
      <<>>,                                     \* empty
      [Pattern({1, 2}) EXCEPT ![3] = "a"],      \* 24 characters, a letter
      [Pattern({24}) EXCEPT ![1] = "2"],        \* 24 characters, a digit 2
      [Pattern({}) EXCEPT ![1] = "U+0663"] }    \* ARABIC-INDIC DIGIT THREE

\* The operator edits the "Input:" field.
EditK(e) ==
    /\ Manual
    /\ Slot([Self EXCEPT !.k = e], "edit", e)

\* A click on coil button i: Qt toggles the checkable button, then emits
\* clicked, which is connected to getButtonsState.
ClickButton(i) ==
    /\ Manual
    /\ Slot(getButtonsState([Self EXCEPT !.buttons[i] = ~buttons[i]]),
            "clickButton", i)

\* "Set state" pressed.
PressSetState ==
    /\ Manual
    /\ Slot(setButtonsState(Self), "setButtonsState", k)

\* "All on" pressed: writeInputCommand(self.B), then setButtonsState.
PressAllOn ==
    /\ Manual
    /\ Slot(setButtonsState(writeInputCommand(Self, B)), "allOn", B.text)

\* "All off" pressed: writeInputCommand(self.A), then setButtonsState.
PressAllOff ==
    /\ Manual
    /\ Slot(setButtonsState(writeInputCommand(Self, A)), "allOff", A.text)

NextBank ==
    \/ \E e \in Entries : EditK(e)
    \/ \E i \in 1..NBits : ClickButton(i)
    \/ PressSetState
    \/ PressAllOn
    \/ PressAllOff

-----------------------------------------------------------------------------
(* Natural numbers of any size, as Python's int and the arithmetic behind  *)
(* its float need them: the sequence of the number's limbs in base Limb,   *)
(* least significant first, without leading zero limbs (0 is <<>>).        *)
(*                                                                         *)
(* TLC evaluates an argument where its value is first needed, inside       *)
(* whatever needed it.  Then(x, y) needs x before y, so that a long        *)
(* computation is a sequence of short ones rather than one deep nest.      *)

Limb == 32 * 1024

Then(x, y) == IF x = x THEN y ELSE y

Least(S) == CHOOSE j \in S : \A i \in S : j <= i
Greatest(S) == CHOOSE j \in S : \A i \in S : j >= i

\* a cut after limb n
BCut(a, n) == IF n = 0 THEN <<>> ELSE SubSeq(a, 1, n)

Longer(a, b) == IF Len(a) > Len(b) THEN Len(a) ELSE Len(b)

\* a without leading zero limbs
BNorm(a) == BCut(a, Greatest({0} \cup {j \in 1..Len(a) : a[j] # 0}))

\* 0 <= n < 2^31
BFromInt(n) ==
    BNorm(<<n % Limb, (n \div Limb) % Limb, n \div (Limb * Limb)>>)

BLimb(a, j) == IF 1 <= j /\ j <= Len(a) THEN a[j] ELSE 0

\* The carry into limb j of the limb sums s: a lower limb overflows and
\* every limb between is full.
Carry(s, j) ==
    IF \E i \in 1..(j - 1) :
           s[i] >= Limb /\ \A l \in (i + 1)..(j - 1) : s[l] = Limb - 1
    THEN 1 ELSE 0

Carried(s) ==
    BNorm([j \in 1..(Len(s) + 1) |->
              (BLimb(s, j) + Carry(s, j)) % Limb])

\* a + b
BAdd(a, b) ==
    Carried(BCut([j \in 1..Longer(a, b) |-> BLimb(a, j) + BLimb(b, j)],
                 Longer(a, b)))

\* The borrow from limb j of the limb differences d
Borrow(d, j) ==
    IF \E i \in 1..(j - 1) :
           d[i] < 0 /\ \A l \in (i + 1)..(j - 1) : d[l] = 0
    THEN 1 ELSE 0

Borrowed(d) ==
    BNorm([j \in 1..Len(d) |-> (d[j] - Borrow(d, j) + Limb) % Limb])

\* a - b for a >= b
BSub(a, b) == Borrowed(BCut([j \in 1..Len(a) |-> a[j] - BLimb(b, j)], Len(a)))

\* -1, 0, 1 as a < b, a = b, a > b at the limb j (0: no limb differs)
CmpAt(a, b, j) == IF j = 0 THEN 0 ELSE IF a[j] < b[j] THEN -1 ELSE 1

\* -1, 0, 1 as a < b, a = b, a > b
BCmp(a, b) ==
    IF Len(a) < Len(b) THEN -1
    ELSE IF Len(a) > Len(b) THEN 1
    ELSE CmpAt(a, b, Greatest({0} \cup {j \in 1..Len(a) : a[j] # b[j]}))

\* a * n for 0 <= n <= Limb
BMulSmall(a, n) ==
    Then(a, BAdd([j \in 1..Len(a) |-> (a[j] * n) % Limb],
                 <<0>> \o [j \in 1..Len(a) |-> (a[j] * n) \div Limb]))

\* a * Limb^j
BShlLimbs(a, j) == IF a = <<>> THEN <<>> ELSE [i \in 1..j |-> 0] \o a

Summed(low, high) == Then(low, Then(high, BAdd(low, high)))

\* a * (the limbs lo..hi of b, in their places)
RECURSIVE BMulRange(_, _, _, _)
BMulRange(a, b, lo, hi) ==
    IF lo = hi THEN BShlLimbs(BMulSmall(a, b[lo]), lo - 1)
    ELSE Summed(BMulRange(a, b, lo, (lo + hi) \div 2),
                BMulRange(a, b, (lo + hi) \div 2 + 1, hi))

BMul(a, b) ==
    IF a = <<>> \/ b = <<>> THEN <<>> ELSE BMulRange(a, b, 1, Len(b))

\* 2^n for 0 <= n < 15
Pow2(n) ==
    <<1, 2, 4, 8, 16, 32, 64, 128, 256, 512, 1024, 2048, 4096, 8192,
      16384>>[n + 1]

\* a * 2^n
BShl(a, n) == BShlLimbs(BMulSmall(a, Pow2(n % 15)), n \div 15)

\* h * h * f
Squared(h, f) == Then(h, BMulSmall(BMul(h, h), f))

RECURSIVE BPow10(_)
BPow10(n) ==
    IF n = 0 THEN <<1>>
    ELSE Squared(BPow10(n \div 2), IF n % 2 = 1 THEN 10 ELSE 1)

\* Number of bits of 0 <= n < Limb, and of a
BitLen(n) == Cardinality({i \in 0..14 : Pow2(i) <= n})
BBitLen(a) == IF a = <<>> THEN 0 ELSE 15 * (Len(a) - 1) + BitLen(a[Len(a)])

\* d * c * Limb^j <= r
Fits(d, c, j, r) == BCmp(BShlLimbs(BMulSmall(d, c), j), r) <= 0

\* The limb of weight Limb^j of the quotient of r by d, whose top limb is
\* at least Limb / 2: the estimate from the two top limbs of r, lowered by
\* at most two.
Estimate(r, d, j) ==
    (BLimb(r, Len(d) + j + 1) * Limb + BLimb(r, Len(d) + j)) \div d[Len(d)]

Lowered(r, d, j, qhat) ==
    IF Fits(d, qhat, j, r) THEN qhat
    ELSE IF Fits(d, qhat - 1, j, r) THEN qhat - 1
    ELSE qhat - 2

Capped(est) == IF est > Limb - 1 THEN Limb - 1 ELSE est

Taken(st, d, j, digit) ==
    [q |-> <<digit>> \o st.q,
     r |-> BSub(st.r, BShlLimbs(BMulSmall(d, digit), j))]

\* One limb of a long division by d
DivStep(st, d, j) ==
    Then(st, Taken(st, d, j, Lowered(st.r, d, j, Capped(Estimate(st.r, d, j)))))

\* The limbs j..0 of the quotient
RECURSIVE DivLoop(_, _, _)
DivLoop(st, d, j) ==
    Then(st, IF j < 0 THEN st ELSE DivLoop(DivStep(st, d, j), d, j - 1))

Quotient(st, d) == [q |-> BNorm(st.q), r |-> st.r, d |-> d]

Scaled(a, d, s) ==
    Then(d, Quotient(DivLoop([q |-> <<>>, r |-> BShl(a, s)], d, 3), d))

\* Quotient of a by b > 0 for a < b * Limb^4, with the remainder r over the
\* divisor d, both scaled by the same power of two.
BDiv4(a, b) ==
    Then(b, Then(a, Scaled(a, BShl(b, 15 - BitLen(b[Len(b)])),
                           15 - BitLen(b[Len(b)]))))

-----------------------------------------------------------------------------
(* Python floats: IEEE 754 binary64.  A finite float is sign * m * 2^e     *)
(* with m < 2^53, written with the least e >= MinExp that allows it; the   *)
(* zeros have m = <<>> and keep their sign.                                *)

MantBits == 53
MinExp == -1074
MaxExp == 971

Zero(sign) == [cls |-> "finite", sign |-> sign, m |-> <<>>, e |-> MinExp]
Inf(sign) == [cls |-> "inf", sign |-> sign, m |-> <<>>, e |-> 0]
NaN == [cls |-> "nan", sign |-> 1, m |-> <<>>, e |-> 0]

\* num / (den * 2^e), for a quotient below 2^60
QuotAt(num, den, e) ==
    BDiv4(IF e < 0 THEN BShl(num, 0 - e) ELSE num,
          IF e > 0 THEN BShl(den, e) ELSE den)

\* The float sign * m * 2^e for m <= 2^53
Pack(sign, m, e) ==
    IF m = <<>> THEN Zero(sign)
    ELSE IF BBitLen(m) > MantBits
    THEN (IF e + 1 > MaxExp THEN Inf(sign)
          ELSE [cls |-> "finite", sign |-> sign,
                m |-> BShl(<<1>>, MantBits - 1), e |-> e + 1])
    ELSE IF e > MaxExp THEN Inf(sign)
    ELSE [cls |-> "finite", sign |-> sign, m |-> m, e |-> e]

\* The quotient h is rounded up: its remainder is more than half the
\* divisor (c > 0), or half of it (c = 0) and the quotient is odd
RoundsUp(h, c) == c > 0 \/ (c = 0 /\ h.q # <<>> /\ h.q[1] % 2 = 1)

\* The quotient h in units of 2^e, rounded to nearest, ties to even
RoundAt(sign, h, e) ==
    Then(h, Pack(sign,
                 BAdd(h.q, IF RoundsUp(h, BCmp(BMulSmall(h.r, 2), h.d))
                           THEN <<1>> ELSE <<>>),
                 e))

\* sign * num / den rounded in units of 2^e, or of 2^(e+1) when the
\* quotient h at e has more than 53 bits
RECURSIVE RoundFrom(_, _, _, _)
RECURSIVE Fitted(_, _, _, _, _)
Fitted(sign, num, den, e, h) ==
    IF BBitLen(h.q) > MantBits THEN RoundFrom(sign, num, den, e + 1)
    ELSE RoundAt(sign, h, e)

RoundFrom(sign, num, den, e) ==
    IF e > MaxExp + 1 THEN Inf(sign)
    ELSE Fitted(sign, num, den, e, QuotAt(num, den, e))

Clamped(b) == IF b < MinExp THEN MinExp ELSE b

\* The float nearest to sign * num / den (round to nearest, ties to even)
FromRational(sign, num, den) ==
    IF num = <<>> THEN Zero(sign)
    ELSE RoundFrom(sign, num, den,
                   Clamped(BBitLen(num) - BBitLen(den) - MantBits))

\* -x
FNeg(x) == IF x.cls = "nan" THEN x ELSE [x EXCEPT !.sign = 0 - x.sign]

\* sign * p * 2^e
Scale(sign, p, e) ==
    Then(p, FromRational(sign,
                         IF e >= 0 THEN BShl(p, e) ELSE p,
                         IF e >= 0 THEN <<1>> ELSE BShl(<<1>>, 0 - e)))

\* x * y
FMul(x, y) ==
    IF x.cls = "nan" \/ y.cls = "nan" THEN NaN
    ELSE IF x.cls = "inf" \/ y.cls = "inf"
    THEN (IF (x.cls = "finite" /\ x.m = <<>>)
               \/ (y.cls = "finite" /\ y.m = <<>>)
          THEN NaN ELSE Inf(x.sign * y.sign))
    ELSE Scale(x.sign * y.sign, BMul(x.m, y.m), x.e + y.e)

\* a / b of two ints, a >= 0, b > 0
IntTrueDiv(a, b) == FromRational(1, BFromInt(a), BFromInt(b))

\* (1/1000)
OneOverThousand == IntTrueDiv(1, 1000)

-----------------------------------------------------------------------------
(* float(text): the text is made ASCII, stripped of white space and of the *)
(* underscores between digits, and read as                                 *)
(*     [sign] (inf | infinity | nan)                                       *)
(*   | [sign] (digits [. [digits]] | . digits) [(e | E) [sign] digits]     *)
(* to the nearest float.  ok = FALSE stands for ValueError.                *)

Fail == [ok |-> FALSE, val |-> NaN]
Value(x) == [ok |-> TRUE, val |-> x]

\* t[lo..hi]
Between(t, lo, hi) == IF lo > hi THEN <<>> ELSE SubSeq(t, lo, hi)

\* The first position from j on that holds no digit.
SpanDigits(t, j) ==
    Least({i \in j..Len(t) : ~IsDigit(t[i])}
              \cup {IF j > Len(t) THEN j ELSE Len(t) + 1})

\* t without its leading zeros
Stripped(t) ==
    Between(t, Least({j \in 1..Len(t) : t[j] # "0"} \cup {Len(t) + 1}), Len(t))

Joined(high, low, n) ==
    Then(high, Then(low, BAdd(BMul(high, BPow10(n)), low)))

\* The number written by a sequence of ASCII digits.
RECURSIVE BFromDigits(_)
BFromDigits(t) ==
    IF t = <<>> THEN <<>>
    ELSE IF Len(t) = 1 THEN BFromInt(DigitValue(t[1]))
    ELSE Joined(BFromDigits(SubSeq(t, 1, Len(t) \div 2)),
                BFromDigits(SubSeq(t, Len(t) \div 2 + 1, Len(t))),
                Len(t) - Len(t) \div 2)

\* Exponents are counted up to ExpCap; every float is 0 or inf long before.
ExpCap == 1000 * 1000

RECURSIVE SmallValue(_)
SmallValue(t) ==
    IF t = <<>> THEN 0
    ELSE 10 * SmallValue(SubSeq(t, 1, Len(t) - 1)) + DigitValue(t[Len(t)])

Saturated(t) == IF Len(t) > 6 THEN ExpCap ELSE SmallValue(t)

ExpValue(t) == Saturated(Stripped(t))

\* sign * M * 10^E
Ratio(sign, M, E) ==
    Then(M, FromRational(sign,
                         IF E >= 0 THEN BMul(M, BPow10(E)) ELSE M,
                         IF E >= 0 THEN <<1>> ELSE BPow10(0 - E)))

\* sign * digits * 10^E for digits with sig significant ones
Sized(sign, digits, E, sig) ==
    IF sig = 0 THEN Zero(sign)
    ELSE IF sig + E > 310 THEN Inf(sign)
    ELSE IF sig + E < -330 THEN Zero(sign)
    ELSE Ratio(sign, BFromDigits(digits), E)

\* The float nearest to sign * digits * 10^E.
FromDecimal(sign, digits, E) == Sized(sign, digits, E, Len(Stripped(digits)))

\* The exponent's digits run from x1 to the end of num.
ExponentDigits(sign, num, digits, places, esign, x1) ==
    IF x1 > Len(num) \/ SpanDigits(num, x1) # Len(num) + 1 THEN Fail
    ELSE Value(FromDecimal(sign, digits,
                   esign * ExpValue(Between(num, x1, Len(num))) - places))

\* The exponent, sign included, starts at x0.
ExponentSign(sign, num, digits, places, x0) ==
    ExponentDigits(sign, num, digits, places,
        IF x0 <= Len(num) /\ num[x0] = "-" THEN -1 ELSE 1,
        IF x0 <= Len(num) /\ num[x0] \in {"+", "-"} THEN x0 + 1 ELSE x0)

\* The mantissa, with `places` of its digits after the point, ends before f1.
Exponent(sign, num, digits, places, f1) ==
    IF f1 = Len(num) + 1 THEN Value(FromDecimal(sign, digits, 0 - places))
    ELSE IF num[f1] \notin {"e", "E"} THEN Fail
    ELSE ExponentSign(sign, num, digits, places, f1 + 1)

\* The digits before the point end before i1, those after it are f0..f1-1.
Mantissa(sign, num, i1, f0, f1) ==
    IF (i1 - 1) + (f1 - f0) = 0 THEN Fail
    ELSE Exponent(sign, num,
                  Between(num, 1, i1 - 1) \o Between(num, f0, f1 - 1),
                  f1 - f0, f1)

Fraction(sign, num, i1, f0) == Mantissa(sign, num, i1, f0, SpanDigits(num, f0))

Point(sign, num, i1) ==
    Fraction(sign, num, i1,
             IF i1 <= Len(num) /\ num[i1] = "." THEN i1 + 1 ELSE i1)

Word(num) == [j \in 1..Len(num) |-> Lower(num[j])]

Number(sign, num) ==
    IF Word(num) \in {<<"i", "n", "f">>,
                      <<"i", "n", "f", "i", "n", "i", "t", "y">>}
    THEN Value(Inf(sign))
    ELSE IF Word(num) = <<"n", "a", "n">> THEN Value(NaN)
    ELSE Point(sign, num, SpanDigits(num, 1))

SignedNumber(plain) ==
    Number(IF plain # <<>> /\ plain[1] = "-" THEN -1 ELSE 1,
           IF plain # <<>> /\ plain[1] \in {"+", "-"} THEN Tail(plain)
           ELSE plain)

\* An underscore stands between two digits.
Scores(body) ==
    \A p \in 1..Len(body) :
        body[p] = "_" =>
            /\ 1 < p /\ p < Len(body)
            /\ IsDigit(body[p - 1]) /\ IsDigit(body[p + 1])

Unscored(body) ==
    IF ~Scores(body) THEN Fail
    ELSE SignedNumber(SelectSeq(body, LAMBDA c : c # "_"))

\* t without the white space around it
Strip(t) ==
    Between(t, Least({j \in 1..Len(t) : t[j] \notin AsciiSpaces}
                         \cup {Len(t) + 1}),
               Greatest({j \in 1..Len(t) : t[j] \notin AsciiSpaces}
                            \cup {0}))

\* float(text)
PyFloat(text) == Unscored(Strip([j \in 1..Len(text) |-> ToAscii(text[j])]))

-----------------------------------------------------------------------------
(* The stage *)

\* stage.mcl_move(axis, velocity, distance)
mcl_move(s, axis, velocity, distance) ==
    [s EXCEPT !.moves = Append(s.moves,
        [axis |-> axis, velocity |-> velocity, distance |-> distance])]

\* The assignments of the branch of move that INPUT selects, with d for
\* float(self.D.text()): ok = FALSE when that float() raises; axis 0 when no
\* branch is taken and both names stay unbound.
moveBranch(INPUT, d) ==
    CASE INPUT = <<"1", "0", "0", "0">> ->
           [axis |-> 1, ok |-> d.ok,
            distance |-> FMul(d.val, OneOverThousand)]
      [] INPUT = <<"0", "0", "0", "1">> ->
           [axis |-> 1, ok |-> d.ok,
            distance |-> FMul(FNeg(d.val), OneOverThousand)]
      [] INPUT = <<"0", "1", "0", "0">> ->
           [axis |-> 2, ok |-> d.ok,
            distance |-> FMul(FNeg(d.val), OneOverThousand)]
      [] INPUT = <<"0", "0", "1", "0">> ->
           [axis |-> 2, ok |-> d.ok,
            distance |-> FMul(d.val, OneOverThousand)]
      [] OTHER -> [axis |-> 0, ok |-> TRUE, distance |-> NaN]

\* The rest of move, with v for float(self.V.text())
moveCall(s, branch, v) ==
    IF ~branch.ok THEN [s EXCEPT !.raised = "ValueError"]
    ELSE IF ~v.ok THEN [s EXCEPT !.raised = "ValueError"]
    ELSE IF branch.axis = 0 THEN [s EXCEPT !.raised = "UnboundLocalError"]
    ELSE mcl_move(s, branch.axis, v.val, branch.distance)

\* Branches in which "0100" has the sign of "0010".
MutBranchSignSwapped(INPUT, d) ==
    IF INPUT = <<"0", "1", "0", "0">>
    THEN [axis |-> 2, ok |-> d.ok, distance |-> FMul(d.val, OneOverThousand)]
    ELSE moveBranch(INPUT, d)

\* A move whose "0100" branch has the sign of the "0010" branch.
MutMoveSignSwapped(s, INPUT) ==
    moveCall(s, MutBranchSignSwapped(INPUT, PyFloat(s.D.text)), PyFloat(s.V))

\* Branches that fall back to axis 1 and distance 0 when none matches.
MutBranchDefaultAxis(INPUT, d) ==
    IF moveBranch(INPUT, d).axis = 0
    THEN [axis |-> 1, ok |-> TRUE, distance |-> Zero(1)]
    ELSE moveBranch(INPUT, d)

\* A move that falls back to axis 1 and distance 0 when no branch matches.
MutMoveDefaultAxis(s, INPUT) ==
    moveCall(s, MutBranchDefaultAxis(INPUT, PyFloat(s.D.text)), PyFloat(s.V))

move(s, INPUT) ==
    moveCall(s, moveBranch(INPUT, PyFloat(s.D.text)), PyFloat(s.V))

\* self.resetButtonsState(): MainWindow has no such method.
resetButtonsState(s) == [s EXCEPT !.raised = "AttributeError"]

\* The last statement of getMCLButtonsState, reached if move returned
afterMove(t) == IF t.raised # "none" THEN t ELSE resetButtonsState(t)

getMCLButtonsState(s) ==
    afterMove(move([s EXCEPT !.MCL = binstring(s.MCLbuttons)],
                   binstring(s.MCLbuttons)))

\* Texts the operator types into the distance and velocity fields.
DTexts ==
    { <<"5", "0">>, <<"9">>, <<"0", ".", "5">>, <<"a", "b", "c">>,
      <<"1", "e", "3">>,                    \* an exponent
      <<"0", ".", "0", "0", "6">>,          \* 6 nm
      <<" ", "U+0663">> }                   \* a blank, ARABIC-INDIC DIGIT THREE
VTexts == { <<"1">>, <<"2", ".", "5">>, <<>>, <<"i", "n", "f">> }

EditD(t) ==
    /\ Manual
    /\ Slot([Self EXCEPT !.D.text = t], "editD", t)

EditV(t) ==
    /\ Manual
    /\ Slot([Self EXCEPT !.V = t], "editV", t)

\* A click on direction button b (1..4 = '-X', '+Y', '-Y', '+X'): Qt toggles
\* the checkable button, then emits clicked.
ClickMCLButton(b) ==
    /\ Manual
    /\ Slot(getMCLButtonsState([Self EXCEPT !.MCLbuttons[b] = ~MCLbuttons[b]]),
            "clickMCLButton", b)

-----------------------------------------------------------------------------
(* The lamp *)

CSN == "CSN\n"
CSF == "CSF\n"

\* A getLEDButtonsState that writes its command a second time.
MutGetLEDButtonsStateRetry(s) ==
    LET INPUT == binstring(s.LEDbuttons)
        CMD == IF PyBool(DigitsValue(INPUT)) THEN CSN ELSE CSF
    IN  [s EXCEPT !.sent = s.sent \o <<CMD, CMD>>]

getLEDButtonsState(s) ==
    LET INPUT == binstring(s.LEDbuttons)
    IN  IF PyBool(DigitsValue(INPUT))
        THEN [s EXCEPT !.sent = Append(s.sent, CSN)]
        ELSE [s EXCEPT !.sent = Append(s.sent, CSF)]

ClickLEDButton ==
    /\ Manual
    /\ Slot(getLEDButtonsState([Self EXCEPT !.LEDbuttons[1] = ~LEDbuttons[1]]),
            "clickLEDButton", 1)

NextStage ==
    \/ \E t \in DTexts : EditD(t)
    \/ \E t \in VTexts : EditV(t)
    \/ \E b \in 1..4 : ClickMCLButton(b)
    \/ ClickLEDButton

-----------------------------------------------------------------------------
(* Routines: Worker runnables on pool threads, and the GUI thread's slots   *)

\* One pass of each routine's loop body (the sleeps are where a worker
\* waits; the model lets it wait any time).
executefn1 == <<"A", "B">>
executefn2 == <<"C", "D">>
executefn3 == <<"A", "B", "C">>
executefn4 == <<"A", "B", "C", "D">>

Body(fn) ==
    CASE fn = 1 -> executefn1 [] fn = 2 -> executefn2
      [] fn = 3 -> executefn3 [] fn = 4 -> executefn4

\* Number of results.emit calls of a routine: range(10) passes of its body.
Steps(fn) == Reps * Len(Body(fn))

\* The i-th value a worker sends on its result signal: the routine's steps,
\* then the routine's return value.
Emission(fn, i) ==
    IF i <= Steps(fn) THEN Body(fn)[((i - 1) % Len(Body(fn))) + 1] ELSE "None"

MutPostFront(q, ev) == <<ev>> \o q

\* An event posted to the GUI thread's event queue.
post(q, ev) == Append(q, ev)

MutDirectConnection(sender, receiver) == "direct"

\* connect() with the default Qt.AutoConnection: the slot is called at once
\* when the signal is emitted on the receiver's thread, and queued for the
\* receiver's thread otherwise.
ConnectionType(sender, receiver) ==
    IF sender = receiver THEN "direct" ELSE "queued"

\* A worker whose run() has not returned.
Live == {w \in DOMAIN workers : workers[w].pc # "done"}

RECURSIVE SumEmitted(_)
SumEmitted(ws) ==
    IF ws = {} THEN 0
    ELSE LET w == CHOOSE x \in ws : TRUE
         IN  workers[w].n + SumEmitted(ws \ {w})

\* Exploration bound: one worker alone runs to its end; workers running
\* side by side emit MaxEmit steps between them.
EmitAllowed == Cardinality(Live) <= 1 \/ SumEmitted(Live) < MaxEmit

\* Worker(self.executefn<fn>): a runnable not yet on any thread.
Worker(fn) ==
    [fn |-> fn, pc |-> "fn", n |-> 0, handled |-> 0, complete |-> FALSE,
     thread |-> "none", superseded |-> -1]

MutStartInline(worker) == [worker EXCEPT !.thread = GuiThread]

\* self.threadpool.start(worker): run() executes on a thread of the pool.
start(worker) == [worker EXCEPT !.thread = PoolThread]

\* History kept for the properties: each run still going when another
\* routine is started remembers how many steps it had emitted by then.
Superseded(ws) ==
    [w \in DOMAIN ws |->
        IF ws[w].pc # "done" /\ ws[w].superseded = -1
        THEN [ws[w] EXCEPT !.superseded = ws[w].n]
        ELSE ws[w]]

\* runfunction1..4: a new Worker, its signals connected, handed to the pool.
runfunction(fn) ==
    /\ ~aborted
    /\ GuiIdle
    /\ Len(workers) < MaxStarts
    /\ workers' = Append(Superseded(workers), start(Worker(fn)))
    /\ Slot(Self, "runfunction", fn)
    /\ UNCHANGED <<queue, gestures>>

runfunction1 == runfunction(1)
runfunction2 == runfunction(2)
runfunction3 == runfunction(3)
runfunction4 == runfunction(4)

GuiUnchanged ==
    UNCHANGED <<buttons, displayBin, k, b4, bc, D, V, MCL, MCLbuttons,
                LEDbuttons, coils, writes, moves, sent, last, aborted,
                gestures>>

\* self.A .. self.D as action reads them.
Attribute(s, name) ==
    CASE name = "A" -> A [] name = "B" -> B [] name = "C" -> C
      [] name = "D" -> s.D

action(s, results) ==
    IF results \in {"A", "B", "C", "D"}
    THEN LET t == writeInputCommand([s EXCEPT !.bc = results],
                                    Attribute(s, results))
         IN  IF t.raised # "none" THEN t ELSE setButtonsState(t)
    ELSE s

\* print("Thread complete!")
thread_complete(s) == s

\* What the window does with one signal of a worker.
Handle(s, ev) ==
    IF ev.sig = "result" THEN action(s, ev.val) ELSE thread_complete(s)

SlotName(ev) == IF ev.sig = "result" THEN "action" ELSE "thread_complete"

SlotArg(ev) == IF ev.sig = "result" THEN ev.val ELSE ev.w

Handled(ws, ev) ==
    IF ev.sig = "result" THEN [ws EXCEPT ![ev.w].handled = @ + 1]
                         ELSE [ws EXCEPT ![ev.w].complete = TRUE]

\* signal.emit(...) in run() of worker w; ws is the workers after w's step.
emit(w, ev, ws) ==
    IF ConnectionType(workers[w].thread, GuiThread) = "queued"
    THEN /\ Len(queue) < MaxQueue
         /\ queue' = post(queue, ev)
         /\ workers' = ws
         /\ GuiUnchanged
    ELSE /\ SlotOn(workers[w].thread, Handle(Self, ev), SlotName(ev), SlotArg(ev))
         /\ workers' = Handled(ws, ev)
         /\ UNCHANGED <<queue, gestures>>

\* Worker.run, inside self.fn: the next results.emit(label), then the sleep.
executefn(w) ==
    /\ ~aborted
    /\ workers[w].pc = "fn"
    /\ workers[w].n < Steps(workers[w].fn)
    /\ EmitAllowed
    /\ emit(w, [sig |-> "result", w |-> w,
                val |-> Emission(workers[w].fn, workers[w].n + 1)],
            [workers EXCEPT ![w].n = @ + 1])

\* Worker.run, else branch: self.fn returned; its return value is emitted on
\* the result signal.  (The except branch is never taken: nothing in
\* executefn1..4 raises.)
runElse(w) ==
    /\ ~aborted
    /\ workers[w].pc = "fn"
    /\ workers[w].n = Steps(workers[w].fn)
    /\ emit(w, [sig |-> "result", w |-> w,
                val |-> Emission(workers[w].fn, workers[w].n + 1)],
            [workers EXCEPT ![w].pc = "finally"])

\* Worker.run, finally branch: the finished signal.
runFinally(w) ==
    /\ ~aborted
    /\ workers[w].pc = "finally"
    /\ emit(w, [sig |-> "finished", w |-> w, val |-> "None"],
            [workers EXCEPT ![w].pc = "done"])

\* The GUI thread takes the oldest queued signal and runs the connected slot.
DeliverResult ==
    /\ ~aborted
    /\ GuiIdle
    /\ queue # <<>>
    /\ Head(queue).sig = "result"
    /\ Slot(action(Self, Head(queue).val), "action", Head(queue).val)
    /\ workers' = [workers EXCEPT ![Head(queue).w].handled = @ + 1]
    /\ queue' = Tail(queue)
    /\ UNCHANGED gestures

DeliverFinished ==
    /\ ~aborted
    /\ GuiIdle
    /\ queue # <<>>
    /\ Head(queue).sig = "finished"
    /\ Slot(thread_complete(Self), "thread_complete", Head(queue).w)
    /\ workers' = [workers EXCEPT ![Head(queue).w].complete = TRUE]
    /\ queue' = Tail(queue)
    /\ UNCHANGED gestures

NextRoutine ==
    \/ runfunction1
    \/ runfunction2
    \/ runfunction3
    \/ runfunction4
    \/ \E w \in DOMAIN workers : executefn(w)
    \/ \E w \in DOMAIN workers : runElse(w)
    \/ \E w \in DOMAIN workers : runFinally(w)
    \/ DeliverResult
    \/ DeliverFinished

-----------------------------------------------------------------------------
(* The state the constructor leaves *)

Init ==
    /\ buttons = [j \in 1..NBits |-> FALSE]
    /\ displayBin = A.text
    /\ k = A.text
    /\ b4 = OK
    /\ bc = CommandLabel
    /\ D = createDfield
    /\ V = <<"1">>
    /\ MCL = <<>>
    /\ MCLbuttons = [j \in 1..4 |-> FALSE]
    /\ LEDbuttons = <<FALSE>>
    /\ coils = [j \in 0..(NBits - 1) |-> FALSE]
    /\ writes = CoilWrites(A.text)
    /\ moves = <<>>
    /\ sent = <<>>
    /\ workers = <<>>
    /\ queue = <<>>
    /\ last = [op |-> "__init__", arg |-> <<>>, raised |-> "none",
               thread |-> GuiThread]
    /\ aborted = FALSE
    /\ gestures = 0

SpecBank == Init /\ [][NextBank]_vars

SpecStage == Init /\ [][NextStage]_vars

SpecRoutine == Init /\ [][NextRoutine]_vars

\* Manual operations on the coil bank while routines run.  Exploration
\* bounds: the operator makes MaxMixed gestures in all, a start counted as
\* one, and uses the first and the last coil button, two entries and the
\* routines 1 and 2 (between them they emit all four labels).
MixedButtons == {1, NBits}

MixedEntries == {Pattern({1, 2, 24}), Rep(<<"0">>, 23)}

MixedBudget == Len(workers) + gestures < MaxMixed

NextMixed ==
    \/ MixedBudget /\ \E i \in MixedButtons : ClickButton(i)
    \/ MixedBudget /\ \E e \in MixedEntries : EditK(e)
    \/ MixedBudget /\ PressSetState
    \/ MixedBudget /\ PressAllOn
    \/ MixedBudget /\ PressAllOff
    \/ MixedBudget /\ runfunction1
    \/ MixedBudget /\ runfunction2
    \/ \E w \in DOMAIN workers : executefn(w)
    \/ \E w \in DOMAIN workers : runElse(w)
    \/ \E w \in DOMAIN workers : runFinally(w)
    \/ DeliverResult
    \/ DeliverFinished

SpecMixed == Init /\ [][NextMixed]_vars

\* The whole window.  The groups of operations are explored one group at a
\* time (SpecBank, SpecStage, SpecRoutine, SpecMixed).
Next == NextBank \/ NextStage \/ NextRoutine

Spec == Init /\ [][Next]_vars

-----------------------------------------------------------------------------
(* Properties *)

IsBinary(t) == \A j \in 1..Len(t) : t[j] \in {"0", "1"}

\* Result-signal events of worker w waiting in the GUI thread's queue.
PendingOf(w) == SelectSeq(queue, LAMBDA e : e.sig = "result" /\ e.w = w)

\* Values worker w has sent on its result signal so far.
SentBy(w) == workers[w].n + (IF workers[w].pc = "fn" THEN 0 ELSE 1)

\* C1: mutual exclusion of routines: in every reachable state at most one
\* routine run is active (a start while a run is active creates no second
\* worker).
C1_MutualExclusion == Cardinality(Live) <= 1

\* C2: routine 1 run alone: the dispatcher receives exactly 20 step events,
\* A,B,A,B,..., the binary string is 24 zeros after each A and 24 ones after
\* each B, and completion is reported after the 20th event with no further
\* event delivered to the dispatcher.
C2_EndToEndRoutine1 ==
    (Len(workers) = 1 /\ workers[1].fn = 1 /\ gestures = 0) =>
        /\ workers[1].handled <= 20
        /\ (last.op = "action" =>
              /\ last.arg = (IF workers[1].handled % 2 = 1 THEN "A" ELSE "B")
              /\ displayBin = (IF last.arg = "A" THEN Rep(<<"0">>, 24)
                                                 ELSE Rep(<<"1">>, 24)))
        /\ (workers[1].complete => workers[1].handled = 20)

\* C3: once the window has handled a step event carrying label L, the
\* binary string is the preset bound to L: A = 24 zeros, B = 24 ones,
\* C = '1010' six times, D = '0101' six times.
C3_LabelToPreset ==
    (last.op = "action" /\ last.arg \in {"A", "B", "C", "D"}) =>
        displayBin = (CASE last.arg = "A" -> Rep(<<"0">>, 24)
                        [] last.arg = "B" -> Rep(<<"1">>, 24)
                        [] last.arg = "C" -> Rep(<<"1", "0", "1", "0">>, 6)
                        [] last.arg = "D" -> Rep(<<"0", "1", "0", "1">>, 6))

\* C4: "Set state" with an entry whose length is not 24 changes no button,
\* not the binary string and no coil, issues no coil write, and sets the
\* status to 'Error! Require 24-bit binary input'.
C4_RejectedLength ==
    [][(PressSetState /\ Len(k) # 24) =>
          /\ buttons' = buttons
          /\ displayBin' = displayBin
          /\ coils' = coils
          /\ writes' = <<>>
          /\ b4' = ErrorRequire24
          /\ b4' # OK]_vars

C4_Witness ==
    /\ last.op = "setButtonsState"
    /\ Len(last.arg) = 23
    /\ b4 = ErrorRequire24
    /\ displayBin = Pattern({24})
    /\ buttons[24]

\* C5: "Set state" with a 24-character entry holding a character other than
\* '0' and '1' is rejected: no button changes and the status reports an
\* error.
C5_AllOrNothing ==
    [][(PressSetState /\ Len(k) = 24 /\ ~IsBinary(k)) =>
          /\ buttons' = buttons
          /\ b4' # OK]_vars

\* C6: "Set state" with an entry s of 24 characters '0'/'1' succeeds: the
\* binary string read afterwards is s, character j of s is button j (and
\* coil j-1), and the status is 'OK'.
C6_RoundTrip ==
    (last.op = "setButtonsState" /\ Len(last.arg) = 24 /\ IsBinary(last.arg)) =>
        /\ last.raised = "none"
        /\ displayBin = last.arg
        /\ b4 = OK
        /\ \A j \in 1..NBits :
              /\ buttons[j] = (last.arg[j] = "1")
              /\ coils[j - 1] = (last.arg[j] = "1")

C6_Witness ==
    /\ last.op = "setButtonsState"
    /\ last.arg = Pattern({1, 2, 24})
    /\ displayBin = Pattern({1, 2, 24})
    /\ buttons[1] /\ ~buttons[23] /\ buttons[24]

\* C7 as stated: a click on coil button i issues exactly one coil write, for
\* index i with the new value.
C7_SingleWrite ==
    (last.op = "clickButton") =>
        writes = <<[address |-> last.arg - 1, value |-> buttons[last.arg]]>>

\* C7 amended: a click on coil button i issues 24 coil writes, one per index
\* 0..23 in increasing order; the write for index i carries the new value
\* and every other write the unchanged value of its index.
C7_WritesAllCoils ==
    [][\A i \in 1..NBits :
          (last'.op = "clickButton" /\ last'.arg = i /\ ClickButton(i)) =>
          writes' = [j \in 1..NBits |->
                        [address |-> j - 1,
                         value |-> IF j = i THEN ~buttons[j] ELSE buttons[j]]]]_vars

C7_Witness ==
    /\ last.op = "clickButton"
    /\ last.arg = 24
    /\ Len(writes) = 24
    /\ writes[24] = [address |-> 23, value |-> TRUE]
    /\ writes[1] = [address |-> 0, value |-> TRUE]

Bits4 == {<<a, b, c, d>> : a \in {"0", "1"}, b \in {"0", "1"},
                           c \in {"0", "1"}, d \in {"0", "1"}}

DirectionTable ==
    { [input |-> <<"1", "0", "0", "0">>, axis |-> 1, sign |-> 1],
      [input |-> <<"0", "0", "0", "1">>, axis |-> 1, sign |-> -1],
      [input |-> <<"0", "1", "0", "0">>, axis |-> 2, sign |-> -1],
      [input |-> <<"0", "0", "1", "0">>, axis |-> 2, sign |-> 1] }

OneHot == {row.input : row \in DirectionTable}

\* x / n for an int n > 0, as float division rounds it
FDivInt(x, n) ==
    IF x.cls # "finite" THEN x
    ELSE IF x.e >= 0 THEN FromRational(x.sign, BShl(x.m, x.e), BFromInt(n))
    ELSE FromRational(x.sign, x.m, BShl(BFromInt(n), 0 - x.e))

Signed(sign, x) == IF sign = -1 THEN FNeg(x) ELSE x

\* |x * 1000 - y| <= |y| / 2^52 for finite floats x and y
NearThousandth(x, y) ==
    LET emin == IF x.e < y.e THEN x.e ELSE y.e
        p == BShl(BMulSmall(x.m, 1000), x.e - emin)
        q == BShl(y.m, y.e - emin)
        diff == IF BCmp(p, q) >= 0 THEN BSub(p, q) ELSE BSub(q, p)
    IN  x.sign = y.sign /\ BCmp(BShl(diff, 52), q) <= 0

\* C8 as stated: with a distance d and a velocity entered, move on each
\* one-hot input makes exactly one call to the stage, with the velocity as
\* entered and '1000' -> axis 1, +d/1000; '0001' -> axis 1, -d/1000;
\* '0100' -> axis 2, -d/1000; '0010' -> axis 2, +d/1000.
C8_StageDirectionTable ==
    LET d0 == PyFloat(D.text)
        v0 == PyFloat(V)
    IN  (d0.ok /\ v0.ok) =>
            \A row \in DirectionTable :
                LET t == move(Self, row.input)
                IN  /\ t.raised = "none"
                    /\ Len(t.moves) = 1
                    /\ t.moves[1].axis = row.axis
                    /\ t.moves[1].velocity = v0.val
                    /\ t.moves[1].distance
                          = Signed(row.sign, FDivInt(d0.val, 1000))
                    /\ (last.op = "clickMCLButton" /\ MCL = row.input)
                          => moves = t.moves

\* C8, amended: with a distance d and a velocity entered, move on each
\* one-hot input makes exactly one call to the stage, with the velocity as
\* entered, the axis of the table, and the distance (+d or -d, by the table)
\* times the float 1/1000: a float which, when it is a normal number, is
\* within d / 2^52 of the signed d/1000 without always being equal to it.
C8_StageDirectionProduct ==
    LET d0 == PyFloat(D.text)
        v0 == PyFloat(V)
    IN  (d0.ok /\ v0.ok) =>
            \A row \in DirectionTable :
                LET t == move(Self, row.input)
                    d == Signed(row.sign, d0.val)
                    distance == t.moves[1].distance
                IN  /\ t.raised = "none"
                    /\ Len(t.moves) = 1
                    /\ t.moves[1].axis = row.axis
                    /\ t.moves[1].velocity = v0.val
                    /\ distance = FMul(d, OneOverThousand)
                    /\ (distance.cls = "finite"
                          /\ BBitLen(distance.m) = MantBits)
                          => NearThousandth(distance, d)
                    /\ (last.op = "clickMCLButton" /\ MCL = row.input)
                          => moves = t.moves

\* +Y clicked with distance '9' and velocity '2.5': one move on axis 2 by
\* -0.009000000000000001, which is not -0.009.
C8_Witness ==
    /\ last.op = "clickMCLButton"
    /\ MCL = <<"0", "1", "0", "0">>
    /\ D.text = <<"9">>
    /\ V = <<"2", ".", "5">>
    /\ moves = <<[axis |-> 2,
                  velocity |-> [cls |-> "finite", sign |-> 1, m |-> <<0, 0, 0, 160>>, e |-> -51],
                  distance |-> [cls |-> "finite", sign |-> -1, m |-> <<24380, 6815, 14942, 147>>, e |-> -59]]>>
    /\ moves[1].distance # FNeg(FDivInt(PyFloat(D.text).val, 1000))

\* C9: on every 4-bit input that is not one-hot move fails with an error and
\* makes no call to the stage.
C9_UnsupportedDirection ==
    /\ \A INPUT \in Bits4 \ OneHot :
          LET t == move(Self, INPUT)
          IN  t.raised # "none" /\ t.moves = <<>>
    /\ (last.op = "clickMCLButton" /\ MCL \notin OneHot) =>
          (last.raised \in {"UnboundLocalError", "ValueError"} /\ moves = <<>>)

C9_Witness ==
    /\ last.op = "clickMCLButton"
    /\ MCL = <<"1", "1", "0", "0">>
    /\ last.raised = "UnboundLocalError"
    /\ moves = <<>>

\* C10 as stated: a run does not go past step k before the dispatcher has
\* handled step k's event: at most one step event of a run is emitted and
\* not yet handled.
C10_Acknowledged ==
    \A w \in DOMAIN workers : workers[w].n - workers[w].handled <= 1

\* C10 amended: a run does not wait for the dispatcher; the events it has
\* emitted and the GUI thread has not handled wait in emission order, none
\* lost and none twice, and are handled one at a time in that order.
C10_HandledInEmissionOrder ==
    \A w \in DOMAIN workers :
        LET pend == PendingOf(w)
        IN  /\ Len(pend) = SentBy(w) - workers[w].handled
            /\ \A j \in 1..Len(pend) :
                  pend[j].val = Emission(workers[w].fn, workers[w].handled + j)

C10_Witness ==
    \E w \in DOMAIN workers :
        /\ workers[w].pc = "fn"
        /\ workers[w].n = 2
        /\ workers[w].handled = 0
        /\ Len(PendingOf(w)) = 2
        /\ PendingOf(w)[1].val # PendingOf(w)[2].val

\* C11: an event whose label is none of A, B, C, D makes action fail with an
\* error; action never returns normally having ignored it.  The value
\* Worker.run sends on the result signal when the routine has returned is
\* such an event.
C11_UnmappedLabelFatal ==
    (last.op = "action" /\ last.arg \notin {"A", "B", "C", "D"}) =>
        last.raised # "none"

\* C12: a run that was active when another routine was started emits no
\* step event after its next step boundary (at most the one step it was
\* about to emit), none of its events is handled by action after that
\* step, and the new run's first step can be emitted.
C12_Supersession ==
    \A w \in DOMAIN workers :
        workers[w].superseded # -1 =>
            /\ workers[w].n <= workers[w].superseded + 1
            /\ workers[w].handled <= workers[w].superseded + 1

\* C13: coil writes are never torn: every slot, and with it every coil
\* write, is run by the GUI thread, which runs one slot to its end before it
\* takes the next event; so the writes of one application are the 24 writes
\* for the indices 0..23 in order, with no write of another application
\* (routine step or manual operation) among them, and the coils hold what
\* that one application wrote.
C13_NoTornWrites ==
    /\ last.thread = GuiThread
    /\ writes # <<>> =>
          /\ Len(writes) = NBits
          /\ \A j \in 1..NBits :
                /\ writes[j].address = j - 1
                /\ coils[j - 1] = writes[j].value

C13_Witness ==
    /\ gestures = 1
    /\ last.op = "action"
    /\ last.arg = "B"
    /\ queue # <<>>
    /\ Len(writes) = NBits
    /\ writes[NBits] = [address |-> NBits - 1, value |-> TRUE]

\* C14 as stated: when "Set state" rejects the entry, the input field holds
\* afterwards the bit pattern applied last (the binary string as it was
\* before the attempt), whatever the state of the bank, and the status
\* holds the error string.
C14_RestoresLastApplied ==
    (last.op = "setButtonsState" /\ Len(last.arg) # 24) =>
        /\ k = displayBin
        /\ b4 = ErrorRequire24

\* C14 amended: when "Set state" rejects the entry (its length is not 24),
\* the input field holds afterwards the all-off preset A, 24 zeros,
\* whatever the state of the bank and the bit pattern applied last, and the
\* status holds the error string.
C14_ResetsToPresetA ==
    (last.op = "setButtonsState" /\ Len(last.arg) # 24) =>
        /\ k = Rep(<<"0">>, 24)
        /\ k = A.text
        /\ b4 = ErrorRequire24

C14_Witness ==
    /\ last.op = "setButtonsState"
    /\ Len(last.arg) = 25
    /\ displayBin = Pattern({24})
    /\ k = A.text
    /\ b4 = ErrorRequire24

\* C15: after a click on coil button i, handled by getButtonsState, the
\* binary string has the new value of output i at index i, every index
\* j # i holds the value the string had there before the click, and the
\* status is 'OK'.
C15_ToggleFrame ==
    [][\A i \in 1..NBits :
          (last'.op = "clickButton" /\ last'.arg = i /\ ClickButton(i)) =>
          /\ Len(displayBin') = NBits
          /\ displayBin'[i] = (IF buttons[i] THEN "0" ELSE "1")
          /\ \A j \in (1..NBits) \ {i} : displayBin'[j] = displayBin[j]
          /\ b4' = OK]_vars

\* The string s of the setAll(s) the window ran last.
C16_Applied ==
    IF last.op = "action" THEN Attribute(Self, last.arg).text ELSE last.arg

\* C16: every successful setAll(s) ("Set state", "All on", "All off", or a
\* routine step handled by action) issues exactly 24 coil writes, one per
\* index, in the order 0, 1, ..., 23, and the value written at index j is
\* true exactly when s[j] = '1'.
C16_WriteOrder ==
    (/\ last.op \in {"setButtonsState", "allOn", "allOff", "action"}
     /\ last.op = "action" => last.arg \in {"A", "B", "C", "D"}
     /\ last.raised = "none"
     /\ b4 = OK) =>
        writes = [j \in 1..NBits |->
                     [address |-> j - 1, value |-> (C16_Applied[j] = "1")]]

\* finished signals of worker w waiting in the GUI thread's queue.
FinishedOf(w) == SelectSeq(queue, LAMBDA e : e.sig = "finished" /\ e.w = w)

C18_IlluminatorCommand ==
    (last.op = "clickLEDButton") =>
        /\ last.raised = "none"
        /\ Len(sent) = 1
        /\ sent[1] = (IF LEDbuttons[1] THEN "CSN\n" ELSE "CSF\n")

C18_Witness ==
    /\ last.op = "clickLEDButton"
    /\ ~LEDbuttons[1]
    /\ sent = <<"CSF\n">>
    /\ gestures = 2

\* Worker w sleeps in time.sleep after a step it has emitted.
InHold(w) == workers[w].pc = "fn" /\ workers[w].n > 0

\* C19: while a run sleeps in the hold of a step, the GUI thread is free to
\* take the operator's events (no run() occupies it, which is all a manual
\* slot waits for), and a click on a coil button made then takes effect in
\* that very step, the run still in its hold: nothing waits for the hold or
\* for the routine to end.
C19_Responsive ==
    /\ []((\E w \in DOMAIN workers : InHold(w)) => GuiIdle)
    /\ [][\A i \in MixedButtons :
            (/\ \E w \in DOMAIN workers : InHold(w)
             /\ last'.op = "clickButton" /\ last'.arg = i
             /\ ClickButton(i)) =>
               /\ buttons'[i] = ~buttons[i]
               /\ displayBin'[i] = (IF buttons'[i] THEN "1" ELSE "0")
               /\ coils'[i - 1] = buttons'[i]
               /\ workers' = workers
               /\ queue' = queue]_vars

C19_Witness ==
    /\ last.op = "clickButton"
    /\ buttons[NBits]
    /\ coils[NBits - 1]
    /\ \E w \in DOMAIN workers : InHold(w) /\ workers[w].handled = 0
    /\ queue # <<>>

\* C20: when getMCLButtonsState has handled a click on a direction button,
\* all four direction buttons are unchecked again, the pattern passed to
\* move was one-hot for the clicked button, and, with a distance and a
\* velocity entered, the click made exactly one move.
C20_DirectionReset ==
    (last.op = "clickMCLButton") =>
        /\ last.raised = "none"
        /\ \A b \in 1..4 : ~MCLbuttons[b]
        /\ MCL = [b \in 1..4 |-> IF b = last.arg THEN "1" ELSE "0"]
        /\ (PyFloat(D.text).ok /\ PyFloat(V).ok) => Len(moves) = 1

\* C21: in every state between two operations, from the end of construction
\* on, the displayed binary string has length 24, and for every index j in
\* 0..23 its character j is '1' exactly when button j+1 is checked and
\* exactly when the value written last to coil j is true.
C21_Consistency ==
    ~aborted =>
        /\ Len(displayBin) = NBits
        /\ \A j \in 0..(NBits - 1) :
              /\ displayBin[j + 1] \in {"0", "1"}
              /\ (displayBin[j + 1] = "1") = buttons[j + 1]
              /\ (displayBin[j + 1] = "1") = coils[j]

====
